---- MODULE Spec2Model ----
(***************************************************************************)
(* The recurrence-rule engine of ambition_utils.rrule: the RRule model     *)
(* (occurrence computation, last/next occurrence progression) and the      *)
(* RRuleManager (handle_overdue dispatch); with them RecurrenceForm, which *)
(* builds the params of a rule, and PostgresLockContext of                 *)
(* ambition_utils.postgres_lock.                                           *)
(*                                                                         *)
(* Instants are integers counting hours.  Hour 0 is 2022-10-29 00:00 UTC.  *)
(* A naive local datetime is the hour count of its wall-clock reading.     *)
(***************************************************************************)
EXTENDS Integers, Sequences, FiniteSets, TLC

VARIABLES
    now,        \* datetime.utcnow(), in hours
    rules,      \* the RRule table: a sequence of rows, the row's index is its id
    programs,   \* the related objects (tests.models.Program): id -> row
    last,       \* the last operation performed: its name, inputs and observed calls
    passes,     \* the handle_overdue transactions open in the workers: worker -> state
    locks,      \* the PostgresLock table: name -> row, with the holder of its row lock
    contexts    \* the PostgresLockContext of each process: process -> state

vars == <<now, rules, programs, last, passes, locks, contexts>>

----------------------------------------------------------------------------
(* Bounds of the model *)

MaxNow == 48            \* the clock of the single-rule operations stops here
MaxPassDays == 1        \* days the scheduler's clock advances
MaxRules == 2           \* rows created in the RRule table
MaxDates == 3           \* the largest num_dates get_dates is called with

(* Program constants *)

Null == -1              \* None / NULL of a nullable DateTimeField, count or until
Day == 24               \* timedelta(days=1), in hours
KievDstOffset == 3      \* Europe/Kiev, EEST
KievStdOffset == 2      \* Europe/Kiev, EET
KievDstEnd == 25        \* 2022-10-30 01:00 UTC: Europe/Kiev falls back from EEST to EET

NoOffset == 0           \* day_offset None or 0: both are falsy in offset()
NoLimit == 0            \* limit None or 0: both are falsy in `if limit:`
NoObject == 0           \* related_object_id NULL
NoName == "None"        \* related_object_handler_name NULL
NoParams == {}          \* rrule_exclusion_params NULL or empty: a set of at most one params
NoTz == "None"          \* within_tz=None
NoPk == 0               \* self.pk is None: the object is not saved yet
NoProcess == 0          \* no transaction holds the row lock

\* a name without a row in the PostgresLock table
NoRow == [exists |-> FALSE, value |-> "None", previous_value |-> "None", holder |-> NoProcess]

\* a process outside any PostgresLockContext
NoContext == [pc |-> "out", name |-> "None", value |-> "None", lock |-> "None", raised |-> FALSE]

\* the processes of the lock tests and the lock names they use
Processes == {1, 2}
LockNames == {"test", "other"}

NoLocks == [name \in LockNames |-> NoRow]
NoContexts == [p \in Processes |-> NoContext]

----------------------------------------------------------------------------
(* Time zones: pytz through fleming *)

\* tz.utcoffset at a UTC instant
utcoffset(tz, utc) ==
    IF tz = "Europe/Kiev"
    THEN (IF utc < KievDstEnd THEN KievDstOffset ELSE KievStdOffset)
    ELSE 0

\* fleming.convert_to_tz(dt, tz, return_naive=True) of a naive UTC datetime
convert_to_tz(dt, tz) == dt + utcoffset(tz, dt)

\* a localize that keeps the summer offset of Europe/Kiev all year
localize_fixed_offset(dt, tz) ==
    IF tz = "Europe/Kiev" THEN dt - KievDstOffset ELSE dt

\* tz.localize(dt), is_dst=False: an ambiguous wall-clock hour is standard time
localize(dt, tz) ==
    IF tz = "Europe/Kiev"
    THEN (IF dt < KievDstEnd + KievStdOffset THEN dt - KievDstOffset ELSE dt - KievStdOffset)
    ELSE dt

\* fleming.add_timedelta(dt, td, within_tz) of a naive datetime
add_timedelta(dt, td, within_tz) ==
    IF within_tz = NoTz
    THEN dt + td
    ELSE localize(convert_to_tz(dt, within_tz) + td, within_tz)

----------------------------------------------------------------------------
(* dateutil.rrule: the occurrences of a DAILY rule *)

\* the k-th element the rrule generator yields (k = 0 is dtstart)
rrule_item(params, k) == params.dtstart + k * params.interval * Day

\* the generator with a count that lets one element more through
rrule_has_one_more(params, k) ==
    /\ (params.count = Null \/ k <= params.count)
    /\ (params.until = Null \/ rrule_item(params, k) <= params.until)

\* the generator still yields its k-th element (count and until not passed)
rrule_has(params, k) ==
    /\ (params.count = Null \/ k < params.count)
    /\ (params.until = Null \/ rrule_item(params, k) <= params.until)

\* dt is an occurrence of the rrule built from params
rrule_contains(params, dt) ==
    /\ dt >= params.dtstart
    /\ (dt - params.dtstart) % (params.interval * Day) = 0
    /\ rrule_has(params, (dt - params.dtstart) \div (params.interval * Day))

\* the iteration of a rule set built without line 232: no exrule is added
RECURSIVE rruleset_iter_no_exrule(_, _, _, _)
rruleset_iter_no_exrule(params, exparams, dt, k) ==
    IF ~rrule_has(params, k) THEN Null
    ELSE IF rrule_item(params, k) > dt
         THEN rrule_item(params, k)
         ELSE rruleset_iter_no_exrule(params, exparams, dt, k + 1)

\* the iteration of rruleset.after(dt): the first yielded item greater than dt
\* that the exclusion rule does not yield
RECURSIVE rruleset_iter(_, _, _, _)
rruleset_iter(params, exparams, dt, k) ==
    IF ~rrule_has(params, k) THEN Null
    ELSE IF rrule_item(params, k) > dt
            /\ \A ex \in exparams : ~rrule_contains(ex, rrule_item(params, k))
         THEN rrule_item(params, k)
         ELSE rruleset_iter(params, exparams, dt, k + 1)

\* get_rrule_set().after(dt)
rruleset_after(params, exparams, dt) == rruleset_iter(params, exparams, dt, 0)

\* get_rrule_set()[0]
rruleset_first(params, exparams) == rruleset_iter(params, exparams, params.dtstart - 1, 0)

----------------------------------------------------------------------------
(* RRule *)

\* RRule.convert_to_utc
convert_to_utc(r, dt) == localize(dt, r.time_zone)

\* RRule.offset
offset(r, dt, reverse) ==
    IF r.day_offset # NoOffset
    THEN add_timedelta(dt, Day * r.day_offset * (IF reverse THEN -1 ELSE 1),
                       IF ~reverse THEN r.time_zone ELSE NoTz)
    ELSE dt

\* the params get_next_occurrence(force=True) uses for its second attempt
unbounded(params) == [params EXCEPT !.count = Null, !.until = Null]

\* the reference instant left in UTC, without the conversion of line 290
get_next_occurrence_local_utc(r, lo) == lo

\* the reference instant converted to the rule's zone
get_next_occurrence_local(r, lo) == convert_to_tz(lo, r.time_zone)

\* RRule.get_next_occurrence
get_next_occurrence(r, last_occurrence, calculate_offset, force, t) ==
    LET lo == IF last_occurrence # Null THEN last_occurrence
              ELSE IF r.last_occurrence # Null THEN r.last_occurrence ELSE t
        local == get_next_occurrence_local(r, lo)
        ref == IF calculate_offset THEN offset(r, local, TRUE) ELSE local
        first == rruleset_after(r.rrule_params, r.rrule_exclusion_params, ref)
        nxt == IF first = Null /\ force
               THEN rruleset_after(unbounded(r.rrule_params), r.rrule_exclusion_params, ref)
               ELSE first
    IN  IF nxt # Null
        THEN (IF calculate_offset THEN offset(r, convert_to_utc(r, nxt), FALSE)
              ELSE convert_to_utc(r, nxt))
        ELSE Null

\* update_next_occurrence that looks for the occurrence after now, not after
\* the occurrence just handled
update_next_occurrence_from_now(r, t) ==
    IF r.next_occurrence = Null THEN [rule |-> r, ret |-> "None"]
    ELSE IF t < r.next_occurrence THEN [rule |-> r, ret |-> "False"]
    ELSE LET r1 == [r EXCEPT !.last_occurrence = r.next_occurrence]
         IN  [rule |-> [r1 EXCEPT !.next_occurrence =
                            get_next_occurrence(r1, t, TRUE, FALSE, t)],
              ret |-> "None"]

\* update_next_occurrence without the test of line 341: a rule is advanced
\* whether it is due or not
update_next_occurrence_unguarded(r, t) ==
    IF r.next_occurrence = Null THEN [rule |-> r, ret |-> "None"]
    ELSE LET r1 == [r EXCEPT !.last_occurrence = r.next_occurrence]
         IN  [rule |-> [r1 EXCEPT !.next_occurrence =
                            get_next_occurrence(r1, r1.last_occurrence, TRUE, FALSE, t)],
              ret |-> "None"]

\* update_next_occurrence with <= in the test of line 341: a rule due exactly
\* now is treated as not yet due
update_next_occurrence_late(r, t) ==
    IF r.next_occurrence = Null THEN [rule |-> r, ret |-> "None"]
    ELSE IF t <= r.next_occurrence THEN [rule |-> r, ret |-> "False"]
    ELSE LET r1 == [r EXCEPT !.last_occurrence = r.next_occurrence]
         IN  [rule |-> [r1 EXCEPT !.next_occurrence =
                            get_next_occurrence(r1, r1.last_occurrence, TRUE, FALSE, t)],
              ret |-> "None"]

\* RRule.update_next_occurrence on the object r at time t: the object after the
\* call and the value returned
update_next_occurrence(r, t) ==
    IF r.next_occurrence = Null THEN [rule |-> r, ret |-> "None"]
    ELSE IF t < r.next_occurrence THEN [rule |-> r, ret |-> "False"]
    ELSE LET r1 == [r EXCEPT !.last_occurrence = r.next_occurrence]
         IN  [rule |-> [r1 EXCEPT !.next_occurrence =
                            get_next_occurrence(r1, r1.last_occurrence, TRUE, FALSE, t)],
              ret |-> "None"]

\* set_date_objects with is_new = self.last_occurrence is None, the primary key
\* not looked at
set_date_objects_any_pk(r, pk) ==
    IF r.last_occurrence = Null
    THEN [r EXCEPT !.next_occurrence =
             offset(r, convert_to_utc(r, rruleset_first(r.rrule_params, r.rrule_exclusion_params)), FALSE)]
    ELSE r

\* RRule.set_date_objects, run by save() through pre_save_hooks, on an object
\* whose primary key is pk
set_date_objects(r, pk) ==
    IF pk = NoPk /\ r.last_occurrence = Null
    THEN [r EXCEPT !.next_occurrence =
             offset(r, convert_to_utc(r, rruleset_first(r.rrule_params, r.rrule_exclusion_params)), FALSE)]
    ELSE r

\* RRule.refresh_next_occurrence(current_time) at time t: the object after the call
refresh_next_occurrence(r, current_time, t) ==
    LET ct == IF current_time # Null THEN current_time ELSE t
        next_occurrence == get_next_occurrence(r, ct, TRUE, FALSE, t)
    IN  IF next_occurrence # Null
        THEN (IF next_occurrence > t
              THEN [r EXCEPT !.next_occurrence = offset(r, next_occurrence, FALSE)]
              ELSE r)
        ELSE [r EXCEPT !.next_occurrence = Null]

\* the while loop of get_dates with >= in the test of line 497: a date equal to
\* start_date is kept
RECURSIVE get_dates_loop_from(_, _, _, _, _, _)
get_dates_loop_from(r, d, dates, num_dates, start_date, t) ==
    IF Len(dates) >= num_dates THEN dates
    ELSE LET n == get_next_occurrence(r, d, FALSE, FALSE, t)
         IN  IF n = Null THEN dates
             ELSE get_dates_loop_from(r, n,
                      IF start_date = Null \/ n >= start_date
                      THEN Append(dates, offset(r, n, FALSE)) ELSE dates,
                      num_dates, start_date, t)

\* the while loop of get_dates: d is the last date generated, without offset
RECURSIVE get_dates_loop(_, _, _, _, _, _)
get_dates_loop(r, d, dates, num_dates, start_date, t) ==
    IF Len(dates) >= num_dates THEN dates
    ELSE LET n == get_next_occurrence(r, d, FALSE, FALSE, t)
         IN  IF n = Null THEN dates
             ELSE get_dates_loop(r, n,
                      IF start_date = Null \/ n > start_date
                      THEN Append(dates, offset(r, n, FALSE)) ELSE dates,
                      num_dates, start_date, t)

\* RRule.get_dates(num_dates, start_date): the list returned
get_dates(r, num_dates, start_date, t) ==
    LET first == rruleset_first(r.rrule_params, r.rrule_exclusion_params)
        d == convert_to_utc(r, first)
    IN  IF first = Null THEN <<>>
        ELSE get_dates_loop(r, d,
                 IF start_date = Null \/ d > start_date THEN <<offset(r, d, FALSE)>> ELSE <<>>,
                 num_dates, start_date, t)

\* copy.deepcopy(self) stored as it is: the save of line 523 touches no date
clone_copied(r) == r

\* RRule.clone: the copy as saved
clone(r) == set_date_objects(r, NoPk)

\* RRule.clone_with_day_offset(day_offset): the copy as saved
clone_with_day_offset(r, day_offset) ==
    LET c == [r EXCEPT !.day_offset = day_offset]
    IN  set_date_objects([c EXCEPT !.next_occurrence = offset(c, c.next_occurrence, FALSE)], NoPk)

\* line 316 left out: the params stay as popped
restore_none(original_rrule_params, popped) == popped

\* self.rrule_params = original_rrule_params
restore(original_rrule_params, popped) == original_rrule_params

\* self.rrule_params once get_next_occurrence has returned
rrule_params_after(r, last_occurrence, calculate_offset, force, t) ==
    LET lo == IF last_occurrence # Null THEN last_occurrence
              ELSE IF r.last_occurrence # Null THEN r.last_occurrence ELSE t
        local == get_next_occurrence_local(r, lo)
        ref == IF calculate_offset THEN offset(r, local, TRUE) ELSE local
    IN  IF rruleset_after(r.rrule_params, r.rrule_exclusion_params, ref) = Null /\ force
        THEN restore(r.rrule_params, unbounded(r.rrule_params))
        ELSE r.rrule_params

\* an unsaved RRule(...) object with the model's field defaults
NewRule(params, exparams, tz, day_offset, path, object_id, handler_name) ==
    [rrule_params |-> params,
     rrule_exclusion_params |-> exparams,
     time_zone |-> tz,
     day_offset |-> day_offset,
     last_occurrence |-> Null,
     next_occurrence |-> Null,
     occurrence_handler_path |-> path,
     related_object_id |-> object_id,
     related_object_handler_name |-> handler_name,
     time_last_handled |-> Null]

Daily(dtstart, interval, count, until) ==
    [dtstart |-> dtstart, interval |-> interval, count |-> count, until |-> until]

----------------------------------------------------------------------------
(* Operations on one rule *)

Idle(op) ==
    [op |-> op, id |-> 0, ret |-> "None", raised |-> FALSE, calls |-> <<>>, related_calls |-> <<>>]

\* the record of an operation on rule i called with the instant arg (Null when
\* the argument is left out) that returned the instant or the list value
Returned(op, i, arg, value) ==
    [op |-> op, id |-> i, ret |-> "value", raised |-> FALSE, calls |-> <<>>, related_calls |-> <<>>,
     arg |-> arg, value |-> value]

\* the rules a test creates with a zone, an interval, a count and a day offset
SeriesRules ==
    { NewRule(Daily(10, i, c, Null), NoParams, tz, d, "tests.HandlerOne", NoObject, NoName) :
        i \in {1, 2}, c \in {Null, 2}, tz \in {"UTC", "Europe/Kiev"}, d \in {NoOffset, 1} }

\* time passes, up to max
Tick(d, max) ==
    /\ now + d <= max
    /\ now' = now + d
    /\ last' = Idle("tick")
    /\ UNCHANGED <<rules, programs, passes, locks, contexts>>

\* rule.update_next_occurrence() with save=True
UpdateNextOccurrence ==
    \E i \in DOMAIN rules :
        LET out == update_next_occurrence(rules[i], now)
        IN  /\ rules' = [rules EXCEPT ![i] = out.rule]
            /\ last' = [Idle("update_next_occurrence") EXCEPT !.id = i, !.ret = out.ret]
            /\ UNCHANGED <<now, programs, passes, locks, contexts>>

InitRule ==
    /\ now = 0
    /\ \E r \in SeriesRules : rules = <<set_date_objects(r, NoPk)>>
    /\ programs = <<>>
    /\ last = Idle("create")
    /\ passes = <<>>
    /\ locks = NoLocks
    /\ contexts = NoContexts

NextRule == Tick(1, MaxNow) \/ UpdateNextOccurrence

SpecRule == InitRule /\ [][NextRule]_vars

\* the offsets of the day-offset tests: none, a day later, a day earlier
DayOffsets == {NoOffset, 1, -1}

\* rules with an exclusion rule that takes out every second day, dtstart first
ExclusionRules ==
    { NewRule(Daily(10, 1, Null, Null), {Daily(10, 2, Null, Null)}, tz, d,
              "tests.HandlerOne", NoObject, NoName) :
        tz \in {"UTC", "Europe/Kiev"}, d \in DayOffsets }

\* rules that end with until, three occurrences long
UntilRules ==
    { NewRule(Daily(10, 1, Null, 10 + 2 * Day), NoParams, tz, d,
              "tests.HandlerOne", NoObject, NoName) :
        tz \in {"UTC", "Europe/Kiev"}, d \in DayOffsets }

LifecycleRules == SeriesRules \cup ExclusionRules \cup UntilRules

\* the instants a test passes as current_time: none (now), and one in the past
CurrentTimes == {Null, 0}

\* rule.save() on a row of the table
Save ==
    \E i \in DOMAIN rules :
        /\ rules' = [rules EXCEPT ![i] = set_date_objects(rules[i], i)]
        /\ last' = [Idle("save") EXCEPT !.id = i]
        /\ UNCHANGED <<now, programs, passes, locks, contexts>>

\* rule.refresh_next_occurrence(current_time) on the object of row i; the
\* rule.save() that follows it in the callers is the action Save
RefreshNextOccurrence ==
    \E i \in DOMAIN rules, ct \in CurrentTimes :
        /\ rules' = [rules EXCEPT ![i] = refresh_next_occurrence(rules[i], ct, now)]
        /\ last' = Returned("refresh_next_occurrence", i, ct, Null)
        /\ UNCHANGED <<now, programs, passes, locks, contexts>>

InitLifecycle ==
    /\ now = 0
    /\ \E r \in LifecycleRules : rules = <<set_date_objects(r, NoPk)>>
    /\ programs = <<>>
    /\ last = Idle("create")
    /\ passes = <<>>
    /\ locks = NoLocks
    /\ contexts = NoContexts

NextLifecycle == Tick(1, MaxNow) \/ UpdateNextOccurrence \/ Save \/ RefreshNextOccurrence

SpecLifecycle == InitLifecycle /\ [][NextLifecycle]_vars

\* the number of dates the clone tests ask get_dates for
CloneDates == 4

\* rule.clone() on the object of row i: the copy is saved as a new row
Clone ==
    /\ Len(rules) < MaxRules
    /\ \E i \in DOMAIN rules :
          /\ rules' = Append(rules, clone(rules[i]))
          /\ last' = Returned("clone", i, Null, Len(rules) + 1)
    /\ UNCHANGED <<now, programs, passes, locks, contexts>>

\* the offsets the tests clone with: none, a day or two days back, a day ahead
CloneOffsets == DayOffsets \cup {-2}

\* rule.clone_with_day_offset(d) on the object of row i; with a day offset and no
\* next_occurrence the call raises in fleming.add_timedelta and saves nothing
CloneWithDayOffset ==
    /\ Len(rules) < MaxRules
    /\ \E i \in DOMAIN rules, d \in CloneOffsets :
          /\ rules[i].next_occurrence # Null \/ d = NoOffset
          /\ rules' = Append(rules, clone_with_day_offset(rules[i], d))
          /\ last' = Returned("clone_with_day_offset", i, d, Len(rules) + 1)
    /\ UNCHANGED <<now, programs, passes, locks, contexts>>

InitClone ==
    /\ now = 0
    /\ \E r \in SeriesRules \cup UntilRules : rules = <<set_date_objects(r, NoPk)>>
    /\ programs = <<>>
    /\ last = Idle("create")
    /\ passes = <<>>
    /\ locks = NoLocks
    /\ contexts = NoContexts

NextClone ==
    \/ Tick(Day \div 2, MaxNow)
    \/ UpdateNextOccurrence
    \/ RefreshNextOccurrence
    \/ Clone
    \/ CloneWithDayOffset

SpecClone == InitClone /\ [][NextClone]_vars

\* clone() alone, of the rules of the series tests
InitCopy ==
    /\ now = 0
    /\ \E r \in SeriesRules : rules = <<set_date_objects(r, NoPk)>>
    /\ programs = <<>>
    /\ last = Idle("create")
    /\ passes = <<>>
    /\ locks = NoLocks
    /\ contexts = NoContexts

NextCopy == Tick(Day, MaxNow) \/ UpdateNextOccurrence \/ RefreshNextOccurrence \/ Clone

SpecCopy == InitCopy /\ [][NextCopy]_vars

\* the rules that end: with a count, or with until
BoundedRules == { r \in SeriesRules : r.rrule_params.count # Null } \cup UntilRules

\* rule.get_next_occurrence(force=force) on the object of row i
GetNextOccurrence ==
    \E i \in DOMAIN rules, force \in BOOLEAN :
        /\ rules' = [rules EXCEPT ![i].rrule_params =
                        rrule_params_after(rules[i], Null, TRUE, force, now)]
        /\ last' = Returned("get_next_occurrence", i, Null,
                             get_next_occurrence(rules[i], Null, TRUE, force, now))
                    @@ [force |-> force]
        /\ UNCHANGED <<now, programs, passes, locks, contexts>>

InitForce ==
    /\ now = 0
    /\ \E r \in BoundedRules : rules = <<set_date_objects(r, NoPk)>>
    /\ programs = <<>>
    /\ last = Idle("create")
    /\ passes = <<>>
    /\ locks = NoLocks
    /\ contexts = NoContexts

NextForce == Tick(Day \div 2, MaxNow) \/ UpdateNextOccurrence \/ GetNextOccurrence

SpecForce == InitForce /\ [][NextForce]_vars

\* the instants passed as start_date: none, one before every occurrence, one
\* between two occurrences, one that is an occurrence of the UTC rules
StartDates == {Null, 0, 20, 10 + Day}

\* rule.get_dates(num_dates=n, start_date=start) on the object of row i; the
\* pre_save_hooks it runs leave a saved rule as it is
GetDates ==
    \E i \in DOMAIN rules, n \in 1..MaxDates, start \in StartDates :
        /\ rules' = [rules EXCEPT ![i] = set_date_objects(rules[i], i)]
        /\ last' = Returned("get_dates", i, start, get_dates(rules[i], n, start, now))
                    @@ [num_dates |-> n]
        /\ UNCHANGED <<now, programs, passes, locks, contexts>>

InitDates ==
    /\ now = 0
    /\ \E r \in LifecycleRules : rules = <<set_date_objects(r, NoPk)>>
    /\ programs = <<>>
    /\ last = Idle("create")
    /\ passes = <<>>
    /\ locks = NoLocks
    /\ contexts = NoContexts

NextDates == Tick(Day, MaxNow) \/ UpdateNextOccurrence \/ GetDates

SpecDates == InitDates /\ [][NextDates]_vars

----------------------------------------------------------------------------
(* dtstart and until as submitted: datetime objects or strings *)

\* datetime.datetime(...) at hour t with its microsecond
datetime(t, microsecond) == [kind |-> "datetime", t |-> t, microsecond |-> microsecond]

\* the text '%Y-%m-%d %H:%M:%S' of hour t; the format has no microsecond
string(t) == [kind |-> "str", t |-> t, microsecond |-> 0]

\* the key is not in the params
NoValue == [kind |-> "None", t |-> Null, microsecond |-> 0]

\* parser.parse(text)
parse(v) == datetime(v.t, 0)

\* value.strftime('%Y-%m-%d %H:%M:%S'): the microsecond is dropped
strftime(v) == string(v.t)

\* set_date_objects_for_params without lines 446-451: nothing is serialized
set_date_objects_for_params_unserialized(params, is_new) ==
    LET parsed(v) == IF is_new /\ v.kind = "str" THEN parse(v) ELSE v
    IN  [params EXCEPT !.dtstart = parsed(@), !.until = parsed(@)]

\* RRule.set_date_objects_for_params(params, is_new): the params after the call
set_date_objects_for_params(params, is_new) ==
    LET parsed(v) == IF is_new /\ v.kind = "str" THEN parse(v) ELSE v
        serialized(v) == IF v.kind = "datetime" THEN strftime(v) ELSE v
    IN  [params EXCEPT !.dtstart = serialized(parsed(@)), !.until = serialized(parsed(@))]

\* RRule.get_rrule_from_params(params): the params the rrule works with; rrule
\* replaces the microsecond of dtstart by 0, and an occurrence (a whole second)
\* is at or before until exactly when it is at or before until's whole second
get_rrule_from_params(params) ==
    LET restored(v) == IF v.kind = "str" THEN parse(v) ELSE v
    IN  Daily(restored(params.dtstart).t, params.interval, params.count,
              IF params.until.kind = "None" THEN Null ELSE restored(params.until).t)

\* the rule with its rrule and exclusion rrule built from the stored params
get_rrule_set(r) ==
    [r EXCEPT !.rrule_params = get_rrule_from_params(@),
              !.rrule_exclusion_params = { get_rrule_from_params(ex) : ex \in @ }]

\* RRule.save() of an object whose params are as submitted: the object saved
save(r, pk) ==
    LET is_new == pk = NoPk /\ r.last_occurrence = Null
        r1 == [r EXCEPT !.rrule_params = set_date_objects_for_params(@, is_new),
                        !.rrule_exclusion_params =
                            { set_date_objects_for_params(ex, is_new) : ex \in @ }]
    IN  [r1 EXCEPT !.next_occurrence = set_date_objects(get_rrule_set(r1), pk).next_occurrence]

\* the dtstart and until the tests submit: datetimes or strings
SubmittedValues(t) == { datetime(t, us) : us \in {0, 1} } \cup { string(t) }

SubmittedRules ==
    { NewRule([dtstart |-> s, interval |-> i, count |-> Null, until |-> u],
              NoParams, tz, NoOffset, "tests.MockHandler", NoObject, NoName) :
        s \in SubmittedValues(10), i \in {1, 2},
        u \in {NoValue} \cup SubmittedValues(10 + 2 * Day), tz \in {"UTC", "Europe/Kiev"} }

\* RRule.objects.create(rrule_params=params, time_zone=tz, ...)
CreateSubmitted ==
    /\ rules = <<>>
    /\ \E r \in SubmittedRules :
          /\ rules' = <<save(r, NoPk)>>
          /\ last' = [Idle("create") EXCEPT !.id = 1] @@ [submitted |-> r]
    /\ UNCHANGED <<now, programs, passes, locks, contexts>>

\* rule.save() on the object of row i
SaveSubmitted ==
    \E i \in DOMAIN rules :
        /\ rules' = [rules EXCEPT ![i] = save(rules[i], i)]
        /\ last' = [Idle("save") EXCEPT !.id = i]
        /\ UNCHANGED <<now, programs, passes, locks, contexts>>

\* rule.update_next_occurrence() on the object of row i, saved
UpdateSubmitted ==
    \E i \in DOMAIN rules :
        LET out == update_next_occurrence(get_rrule_set(rules[i]), now)
            r1 == [rules[i] EXCEPT !.last_occurrence = out.rule.last_occurrence,
                                   !.next_occurrence = out.rule.next_occurrence]
        IN  /\ rules' = [rules EXCEPT ![i] = save(r1, i)]
            /\ last' = [Idle("update_next_occurrence") EXCEPT !.id = i, !.ret = out.ret]
            /\ UNCHANGED <<now, programs, passes, locks, contexts>>

InitParams ==
    /\ now = 0
    /\ rules = <<>>
    /\ programs = <<>>
    /\ last = Idle("init")
    /\ passes = <<>>
    /\ locks = NoLocks
    /\ contexts = NoContexts

NextParams == Tick(Day, MaxNow) \/ CreateSubmitted \/ SaveSubmitted \/ UpdateSubmitted

SpecParams == InitParams /\ [][NextParams]_vars

----------------------------------------------------------------------------
(* RecurrenceForm: the rule a submitted form is saved as *)

\* RecurrenceEnds, the choices of the field ends
Ends == {"NEVER", "AFTER", "ON"}

\* the data submitted: dtstart and until are dates (days from 2022-10-29), a
\* field left out is Null; freq is DAILY, the zone UTC, byhour 10
FormData ==
    [ends : Ends, count : {Null, 0, 2}, until : {Null, 0, 2}, dtstart : {0},
     byhour : {10}, interval : {1}]

\* RecurrenceForm.clean: whether the form is valid, and its cleaned_data
clean(data) ==
    LET until == IF data.ends # "ON" THEN Null ELSE data.until
    IN  [valid |-> /\ ~(data.ends = "AFTER" /\ data.count \in {Null, 0})
                   /\ ~(data.ends = "ON" /\ data.until = Null)
                   /\ ~(until # Null /\ until <= data.dtstart),
         cleaned_data |-> [data EXCEPT !.until = until]]

\* the params RecurrenceForm.save builds from cleaned_data: count and until are
\* keys of the params only when the cleaned value is truthy; dtstart is kept
\* with byhour as the hour of the first occurrence
form_params(cleaned_data) ==
    [dtstart |-> datetime(cleaned_data.dtstart * Day + cleaned_data.byhour, 0),
     interval |-> cleaned_data.interval,
     count |-> IF cleaned_data.count \notin {Null, 0} THEN cleaned_data.count ELSE Null,
     until |-> IF cleaned_data.until # Null
               THEN datetime(cleaned_data.until * Day + cleaned_data.byhour, 0)
               ELSE NoValue]

\* form = RecurrenceForm(data=data); if form.is_valid(): form.save() with no
\* rrule given: a new RRule is saved with the params built
SubmitForm ==
    \E data \in FormData :
        LET form == clean(data)
            rule == NewRule(form_params(form.cleaned_data), NoParams, "UTC", NoOffset,
                            "", NoObject, NoName)
        IN  /\ form.valid => Len(rules) < MaxRules
            /\ rules' = IF form.valid THEN Append(rules, save(rule, NoPk)) ELSE rules
            /\ last' = [Idle("form_save") EXCEPT !.id = IF form.valid THEN Len(rules) + 1 ELSE 0,
                                                 !.raised = ~form.valid]
                        @@ [data |-> data]
            /\ UNCHANGED <<now, programs, passes, locks, contexts>>

NextForm == SubmitForm \/ Tick(Day, MaxNow) \/ UpdateSubmitted

SpecForm == InitParams /\ [][NextForm]_vars

----------------------------------------------------------------------------
(* Handler classes and related objects *)

\* the occurrence_handler_path values in use, in the ascending order of the
\* database ('' is the value of a rule created without a handler path)
Paths == <<"", "alias.HandlerOne", "tests.Gone", "tests.HandlerAll", "tests.HandlerNoOp",
           "tests.HandlerOne", "tests.HandlerTwo">>

PathRank(p) == CHOOSE k \in 1..Len(Paths) : Paths[k] = p

\* import_string(path)(): the class of the instance, "None" when the import or
\* the construction raises.  alias.HandlerOne re-exports tests.HandlerOne.
import_string(path) ==
    CASE path = "tests.HandlerOne" -> "HandlerOne"
      [] path = "alias.HandlerOne" -> "HandlerOne"
      [] path = "tests.HandlerTwo" -> "HandlerTwo"
      [] path = "tests.HandlerNoOp" -> "HandlerNoOp"
      [] path = "tests.HandlerAll" -> "HandlerAll"
      [] OTHER -> "None"

\* RRule.get_occurrence_handler_class_instance
get_occurrence_handler_class_instance(r) == import_string(r.occurrence_handler_path)

\* f"{instance.__class__.__module__}.{instance.__class__.__name__}"
class_path(cls) ==
    CASE cls = "HandlerOne" -> "tests.HandlerOne"
      [] cls = "HandlerTwo" -> "tests.HandlerTwo"
      [] cls = "HandlerNoOp" -> "tests.HandlerNoOp"
      [] cls = "HandlerAll" -> "tests.HandlerAll"

\* the rows with next_occurrence <= now (NULL never compares)
Overdue(rs, t) == { i \in DOMAIN rs : rs[i].next_occurrence # Null /\ rs[i].next_occurrence <= t }

\* handle() of a handler class: HandlerOne and HandlerTwo return their overdue
\* rules, HandlerNoOp returns None; HandlerAll is an OccurrenceHandler whose
\* handle() returns every rule of its path, due or not
handle(cls, rs, t) ==
    IF cls = "HandlerNoOp" THEN {}
    ELSE IF cls = "HandlerAll"
    THEN { i \in DOMAIN rs : rs[i].occurrence_handler_path = class_path(cls) }
    ELSE { i \in Overdue(rs, t) : rs[i].occurrence_handler_path = class_path(cls) }

\* the methods of the Program model that take a rule
ProgramMethods == {"handle_start_recurrence", "handle_no_op"}

\* the loop of process_related_model_handlers without the hasattr test
hasattr_any(progs, r) == TRUE

\* hasattr(rrule_object.related_object, rrule_object.related_object_handler_name)
hasattr(progs, r) ==
    /\ r.related_object_id \in DOMAIN progs
    /\ r.related_object_handler_name \in ProgramMethods

----------------------------------------------------------------------------
(* RRuleManager *)

\* the sequence of the elements of S in ascending order of Less
SortBy(S, Less(_, _)) ==
    [k \in 1..Cardinality(S) |->
        CHOOSE s \in S : Cardinality({u \in S : Less(u, s)}) = k - 1]

\* F(...).asc() without nulls_first: PostgreSQL sorts NULL last
NullsLastLess(a, b) == (a # Null /\ b = Null) \/ (a # Null /\ b # Null /\ a < b)

\* F(...).asc(nulls_first=True)
NullsFirstLess(a, b) == (a = Null /\ b # Null) \/ (a # Null /\ b # Null /\ a < b)

\* order_by(time_last_handled nulls first, next_occurrence, occurrence_handler_path)
HandlerRowLess(rs, i, j) ==
    \/ NullsFirstLess(rs[i].time_last_handled, rs[j].time_last_handled)
    \/ /\ rs[i].time_last_handled = rs[j].time_last_handled
       /\ \/ rs[i].next_occurrence < rs[j].next_occurrence
          \/ /\ rs[i].next_occurrence = rs[j].next_occurrence
             /\ PathRank(rs[i].occurrence_handler_path) < PathRank(rs[j].occurrence_handler_path)

\* order_by(id) alone
RelatedRowLess_id(rs, i, j) == i < j

\* order_by(time_last_handled nulls first, next_occurrence, id)
RelatedRowLess(rs, i, j) ==
    \/ NullsFirstLess(rs[i].time_last_handled, rs[j].time_last_handled)
    \/ /\ rs[i].time_last_handled = rs[j].time_last_handled
       /\ \/ rs[i].next_occurrence < rs[j].next_occurrence
          \/ /\ rs[i].next_occurrence = rs[j].next_occurrence
             /\ i < j

\* queryset[:limit] under `if limit:`
Limit(rows, limit) ==
    IF limit # NoLimit
    THEN SubSeq(rows, 1, IF limit < Len(rows) THEN limit ELSE Len(rows))
    ELSE rows

\* the rows the window can number 1 in the partition of path p: the overdue rows
\* of p with the least next_occurrence (the window orders by nothing else)
FirstRows(rs, t, p) ==
    { i \in Overdue(rs, t) :
        /\ rs[i].occurrence_handler_path = p
        /\ \A j \in Overdue(rs, t) :
              rs[j].occurrence_handler_path = p => rs[i].next_occurrence <= rs[j].next_occurrence }

OverduePaths(rs, t) == { rs[i].occurrence_handler_path : i \in Overdue(rs, t) }

\* the ways the database may number the rows: one row_num = 1 per partition
RowChoices(rs, t) ==
    { pick \in [OverduePaths(rs, t) -> DOMAIN rs] :
        \A p \in OverduePaths(rs, t) : pick[p] \in FirstRows(rs, t, p) }

\* the queryset of overdue_handler_class_instances, limit applied
overdue_handler_rows(rs, t, limit, pick) ==
    Limit(SortBy({ pick[p] : p \in DOMAIN pick }, LAMBDA i, j : HandlerRowLess(rs, i, j)), limit)

\* overdue_handler_class_instances without the filter of line 151
overdue_handler_class_instances_unfiltered(rs, t, limit, pick) ==
    LET rows == overdue_handler_rows(rs, t, limit, pick)
    IN  [k \in 1..Len(rows) |-> get_occurrence_handler_class_instance(rs[rows[k]])]

\* RRuleManager.overdue_handler_class_instances: the classes of the instances
overdue_handler_class_instances(rs, t, limit, pick) ==
    LET rows == overdue_handler_rows(rs, t, limit, pick)
        classes == [k \in 1..Len(rows) |-> get_occurrence_handler_class_instance(rs[rows[k]])]
    IN  SelectSeq(classes, LAMBDA c : c # "None")

\* RRuleManager.update_next_occurrences: update_next_occurrence(save=False) on
\* every object, then bulk_update of last_occurrence and next_occurrence
update_next_occurrences(rs, ids, t) ==
    [i \in DOMAIN rs |-> IF i \in ids THEN update_next_occurrence(rs[i], t).rule ELSE rs[i]]

\* the paths whose rules get time_last_handled in process_occurrence_handler_paths
handler_paths(instances) ==
    { class_path(instances[k]) : k \in { k \in DOMAIN instances : instances[k] # "None" } }

\* .update(time_last_handled=datetime.utcnow()) on the rows in ids
set_time_last_handled(rs, ids, t) ==
    [i \in DOMAIN rs |-> IF i \in ids THEN [rs[i] EXCEPT !.time_last_handled = t] ELSE rs[i]]

\* the exceptions a pass can meet: the first handle() call, the first related
\* method call, or the bulk update of phase n
Faults ==
    { [at |-> "none", n |-> 0],
      [at |-> "handle", n |-> 1], [at |-> "method", n |-> 1],
      [at |-> "bulk_update", n |-> 1], [at |-> "bulk_update", n |-> 2] }

Raises(fault, at, n) == fault.at = at /\ fault.n = n

\* process_occurrence_handler_paths from line 66 on, given the instances: the
\* table as written so far, whether an exception left the method, the calls made
handle_instances(rs, t, fault, instances) ==
    LET \* instance.handle() raises in the handler, or on an instance that is None
        failing == \/ fault.at = "handle" /\ fault.n <= Len(instances)
                   \/ \E k \in DOMAIN instances : instances[k] = "None"
        calls == IF fault.at = "handle" /\ fault.n <= Len(instances)
                 THEN SubSeq(instances, 1, fault.n)
                 ELSE SelectSeq(instances, LAMBDA c : c # "None")
        rrules == UNION { handle(instances[k], rs, t) : k \in DOMAIN instances }
        handled == { i \in DOMAIN rs : rs[i].occurrence_handler_path \in handler_paths(instances) }
    IN  IF failing \/ Raises(fault, "bulk_update", 1)
        THEN [rules |-> rs, raised |-> TRUE, calls |-> calls]
        ELSE [rules |-> set_time_last_handled(update_next_occurrences(rs, rrules, t), handled, t),
              raised |-> FALSE, calls |-> calls]

\* RRuleManager.process_occurrence_handler_paths
process_occurrence_handler_paths(rs, t, limit, pick, fault) ==
    handle_instances(rs, t, fault, overdue_handler_class_instances(rs, t, limit, pick))

\* the queryset of process_related_model_handlers, limit applied
related_rows(rs, t, limit) ==
    Limit(SortBy({ i \in Overdue(rs, t) :
                     /\ rs[i].related_object_handler_name # NoName
                     /\ rs[i].related_object_id # NoObject },
                 LAMBDA i, j : RelatedRowLess(rs, i, j)), limit)

\* Program.handle_start_recurrence and Program.handle_no_op: the Program table
\* after the call on rule r
call_method(progs, r) ==
    IF r.related_object_handler_name = "handle_start_recurrence"
    THEN [progs EXCEPT ![r.related_object_id].start_called = @ + 1]
    ELSE progs

RECURSIVE call_methods(_, _, _)
call_methods(progs, rs, ids) ==
    IF ids = <<>> THEN progs
    ELSE call_methods(call_method(progs, rs[Head(ids)]), rs, Tail(ids))

\* the return value of the method named by rule r: handle_start_recurrence
\* returns the rule, handle_no_op returns None
method_result(r) ==
    IF r.related_object_handler_name = "handle_start_recurrence" THEN "rrule" ELSE "None"

\* rrules_to_advance with neither the hasattr test nor the filter of line 110
rrules_to_advance_all(progs, rs, rows) == { rows[k] : k \in DOMAIN rows }

\* rrules_to_advance after line 110: the non-null results of the methods of the
\* rows that have one
rrules_to_advance(progs, rs, rows) ==
    { rows[k] : k \in { k \in DOMAIN rows :
                          /\ hasattr(progs, rs[rows[k]])
                          /\ method_result(rs[rows[k]]) # "None" } }

\* process_related_model_handlers from line 101 on, given the rows
handle_related_rows(rs, progs, t, fault, rows) ==
    LET called == SelectSeq(rows, LAMBDA i : hasattr(progs, rs[i]))
        \* the method raises, or getattr raises AttributeError
        missing == { k \in DOMAIN called :
                       rs[called[k]].related_object_handler_name \notin ProgramMethods }
        stop == IF fault.at = "method" /\ fault.n <= Len(called) THEN fault.n
                ELSE IF missing # {} THEN CHOOSE k \in missing : \A j \in missing : k <= j
                ELSE 0
    IN  IF stop # 0
        THEN [rules |-> rs, programs |-> call_methods(progs, rs, SubSeq(called, 1, stop - 1)),
              raised |-> TRUE, rows |-> rows, calls |-> SubSeq(called, 1, stop)]
        ELSE IF Raises(fault, "bulk_update", 2)
        THEN [rules |-> rs, programs |-> call_methods(progs, rs, called),
              raised |-> TRUE, rows |-> rows, calls |-> called]
        ELSE [rules |-> set_time_last_handled(
                            update_next_occurrences(rs, rrules_to_advance(progs, rs, rows), t),
                            { rows[k] : k \in DOMAIN rows }, t),
              programs |-> call_methods(progs, rs, called),
              raised |-> FALSE, rows |-> rows, calls |-> called]

\* RRuleManager.process_related_model_handlers
process_related_model_handlers(rs, progs, t, limit, fault) ==
    handle_related_rows(rs, progs, t, fault, related_rows(rs, t, limit))

\* what handle_overdue has written and called when it ends, given the outcomes
\* of its two statements; handler_rules is the table after the first
handle_overdue_result(rows, p1, p2) ==
    IF p1.raised
    THEN [rules |-> p1.rules, programs |-> p2.programs, raised |-> TRUE,
          rows |-> rows, calls |-> p1.calls, handler_rules |-> p1.rules,
          related_rows |-> <<>>, related_calls |-> <<>>]
    ELSE [rules |-> p2.rules, programs |-> p2.programs, raised |-> p2.raised,
          rows |-> rows, calls |-> p1.calls, handler_rules |-> p1.rules,
          related_rows |-> p2.rows, related_calls |-> p2.calls]

\* line 56 of handle_overdue, reached when line 55 did not raise
handle_overdue_related(progs, t, rl, fault, rows, p1) ==
    handle_overdue_result(rows, p1,
        IF p1.raised THEN [programs |-> progs]
        ELSE process_related_model_handlers(p1.rules, progs, t, rl, fault))

\* the body of RRuleManager.handle_overdue: what it has written when it ends
handle_overdue(rs, progs, t, hl, rl, pick, fault) ==
    CHOOSE out \in { handle_overdue_related(progs, t, rl, fault, rows, p1) :
                        rows \in {overdue_handler_rows(rs, t, hl, pick)},
                        p1 \in {process_occurrence_handler_paths(rs, t, hl, pick, fault)} } : TRUE

\* handle_overdue without @transaction.atomic: the writes made before the
\* exception stay
atomic_none(rs, progs, out) == [rules |-> out.rules, programs |-> out.programs]

\* @transaction.atomic: an exception rolls back every write of the block
atomic(rs, progs, out) ==
    IF out.raised THEN [rules |-> rs, programs |-> progs]
    ELSE [rules |-> out.rules, programs |-> out.programs]

----------------------------------------------------------------------------
(* The scheduler *)

\* the limits a pass is called with: none, and one handler class or rule
Limits == {NoLimit, 1}

\* a rule of the manager tests: daily from hour 0
HandlerRule(path) == NewRule(Daily(0, 1, Null, Null), NoParams, "UTC", NoOffset, path, NoObject, NoName)

\* a rule of the related-object tests: no handler path, a method of Program 1
RelatedRule(method) == NewRule(Daily(0, 1, Null, Null), NoParams, "UTC", NoOffset, "", 1, method)

\* the rules of the handler-class tests, one related-object rule among them
HandlerRules ==
    { HandlerRule(p) : p \in {"alias.HandlerOne", "tests.Gone", "tests.HandlerNoOp", "tests.HandlerOne"} }
    \cup { RelatedRule("handle_start_recurrence") }

\* the rules of the related-object tests, one handler-class rule among them
RelatedRules ==
    { RelatedRule(m) : m \in {"handle_start_recurrence", "handle_no_op", "handle_start_recurrence_fake"} }
    \cup { HandlerRule("tests.HandlerOne") }

\* RRule.objects.create(...) with one of the rules in templates: save() seeds
\* next_occurrence
CreateRule(templates) ==
    /\ Len(rules) < MaxRules
    /\ \E r \in templates : rules' = Append(rules, set_date_objects(r, NoPk))
    /\ last' = Idle("create")
    /\ UNCHANGED <<now, programs, passes, locks, contexts>>

NoFault == [at |-> "none", n |-> 0]

\* the end of a pass: the transaction commits or rolls back
EndPass(fault, out) ==
    /\ rules' = atomic(rules, programs, out).rules
    /\ programs' = atomic(rules, programs, out).programs
    /\ last' = [op |-> "handle_overdue", id |-> 0,
                ret |-> IF out.raised THEN fault.at ELSE "None", raised |-> out.raised,
                calls |-> out.calls, related_calls |-> out.related_calls]
    /\ UNCHANGED <<now, passes, locks, contexts>>

\* RRule.objects.handle_overdue(occurrence_handler_limit=hl, related_model_handler_limit=rl)
\* meeting the exception fault
Pass(hl, rl, pick, fault) ==
    \E out \in {handle_overdue(rules, programs, now, hl, rl, pick, fault)} : EndPass(fault, out)

\* a pass in which nothing raises
HandleOverdue ==
    \E pick \in RowChoices(rules, now), hl \in Limits, rl \in Limits :
        Pass(hl, rl, pick, NoFault)

\* a pass in which a handler or the bulk update raises
HandleOverdueRaising ==
    \E pick \in RowChoices(rules, now), fault \in Faults \ {NoFault} :
        /\ handle_overdue(rules, programs, now, NoLimit, NoLimit, pick, fault).raised
        /\ Pass(NoLimit, NoLimit, pick, fault)

Init ==
    /\ now = 0
    /\ rules = <<>>
    /\ programs = <<[start_called |-> 0]>>
    /\ last = Idle("init")
    /\ passes = <<>>
    /\ locks = NoLocks
    /\ contexts = NoContexts

\* the scheduler over the rules of the handler-class tests
Next == Tick(Day, MaxPassDays * Day) \/ CreateRule(HandlerRules) \/ HandleOverdue

Spec == Init /\ [][Next]_vars

\* the scheduler over the rules of the related-object tests
NextRelated == Tick(Day, MaxPassDays * Day) \/ CreateRule(RelatedRules) \/ HandleOverdue

SpecRelated == Init /\ [][NextRelated]_vars

\* the scheduler with passes that raise
NextAtomic == NextRelated \/ HandleOverdueRaising

SpecAtomic == Init /\ [][NextAtomic]_vars

\* rules that are due, rules that are due a day later, and a rule that ends
\* after its first occurrence; the handler of the first three returns them all
NotDueRules ==
    { NewRule(Daily(s, 1, c, Null), NoParams, "UTC", NoOffset, "tests.HandlerAll", NoObject, NoName) :
        s \in {0, Day}, c \in {Null, 1} }
    \cup { NewRule(Daily(Day, 1, Null, Null), NoParams, "UTC", NoOffset, "", 1,
                   "handle_start_recurrence") }

\* the scheduler over rules that are not all due
NextNotDue == Tick(Day, MaxPassDays * Day) \/ CreateRule(NotDueRules) \/ HandleOverdue

SpecNotDue == Init /\ [][NextNotDue]_vars

\* rules of HandlerOne that start on day 0, some ending after one or two
\* occurrences, some a day late
OverdueRules ==
    { NewRule(Daily(0, 1, c, Null), NoParams, "UTC", d, "tests.HandlerOne", NoObject, NoName) :
        c \in {Null, 1, 2}, d \in {NoOffset, 1} }

\* RRule.objects.handle_overdue() in which nothing raises
HandleOverdueAll ==
    \E pick \in RowChoices(rules, now) : Pass(NoLimit, NoLimit, pick, NoFault)

\* the clock is frozen days after the rules start: they are created overdue
InitCatchUp ==
    /\ now = MaxPassDays * Day
    /\ rules = <<>>
    /\ programs = <<[start_called |-> 0]>>
    /\ last = Idle("init")
    /\ passes = <<>>
    /\ locks = NoLocks
    /\ contexts = NoContexts

NextCatchUp == CreateRule(OverdueRules) \/ HandleOverdueAll

\* the caller repeats handle_overdue() while a rule is overdue
SpecCatchUp == InitCatchUp /\ [][NextCatchUp]_vars /\ WF_vars(HandleOverdueAll)

----------------------------------------------------------------------------
(* Passes running at the same time: each worker calls handle_overdue() in a
   transaction of its own, at the READ COMMITTED level of the database *)

\* the workers that run RecurrenceTask when nothing serialises them
Workers == {1, 2}

\* a worker with no transaction open; invoked keeps the related methods its
\* last pass called, each with the occurrence it was called for
NoPass ==
    [pc |-> "idle", rows |-> <<>>, read_rules |-> <<>>, read_programs |-> <<>>,
     rules |-> <<>>, programs |-> <<>>, invoked |-> {}]

\* what a transaction reads: the committed rows under the rows it has written
visible(committed, written) ==
    [i \in DOMAIN committed |-> IF i \in DOMAIN written THEN written[i] ELSE committed[i]]

\* the rules and the programs the other open transactions have written: a write
\* to one of them waits until its transaction ends
locked(p) == UNION { DOMAIN passes[q].rules : q \in Workers \ {p} }

locked_programs(p) == UNION { DOMAIN passes[q].programs : q \in Workers \ {p} }

\* the rules the other open transactions have selected and not yet committed
held(p) ==
    UNION { { passes[q].rows[k] : k \in DOMAIN passes[q].rows } : q \in Workers \ {p} }

\* the queryset of line 86 with select_for_update(skip_locked=True): the rows
\* another transaction holds are left out
select_related_rows_skip_locked(rs, t, limit, taken) ==
    related_rows([i \in DOMAIN rs \ taken |-> rs[i]], t, limit)

\* the queryset of line 86 evaluated at line 101 while other transactions hold
\* the rows in taken: a plain SELECT, it returns them all the same
select_related_rows(rs, t, limit, taken) == related_rows(rs, t, limit)

\* line 55 in the transaction of worker p: the handler classes are handled and
\* their rules written, not yet committed
HandlerPaths(p) ==
    /\ passes[p].pc = "idle"
    /\ \E pick \in RowChoices(rules, now) :
          LET out == process_occurrence_handler_paths(rules, now, NoLimit, pick, NoFault)
              written == { i \in DOMAIN rules : out.rules[i] # rules[i] }
          IN  /\ written \cap locked(p) = {}
              /\ passes' = [passes EXCEPT ![p] =
                               IF out.raised THEN NoPass
                               ELSE [NoPass EXCEPT !.pc = "handlers",
                                                   !.rules = [i \in written |-> out.rules[i]]]]
              /\ last' = [Idle("process_occurrence_handler_paths") EXCEPT
                              !.id = p, !.raised = out.raised, !.calls = out.calls]
    /\ UNCHANGED <<now, rules, programs, locks, contexts>>

\* lines 86 to 102 in the transaction of worker p: the overdue rules and their
\* related objects are loaded
RelatedQuery(p) ==
    /\ passes[p].pc = "handlers"
    /\ LET view == visible(rules, passes[p].rules)
           rows == select_related_rows(view, now, NoLimit, held(p))
       IN  passes' = [passes EXCEPT ![p] =
                        [@ EXCEPT !.pc = "queried",
                                  !.rows = rows,
                                  !.read_rules = [i \in { rows[k] : k \in DOMAIN rows } |-> view[i]],
                                  !.read_programs = visible(programs, passes[p].programs)]]
    /\ last' = [Idle("select") EXCEPT !.id = p]
    /\ UNCHANGED <<now, rules, programs, locks, contexts>>

\* lines 103 to 116 in the transaction of worker p: the methods are called on
\* the loaded objects, the objects advanced and written over the rows as they
\* are now
RelatedHandle(p) ==
    /\ passes[p].pc = "queried"
    /\ LET w == passes[p]
           out == handle_related_rows(w.read_rules, w.read_programs, now, NoFault, w.rows)
           ids == { w.rows[k] : k \in DOMAIN w.rows }
           advanced == rrules_to_advance(w.read_programs, w.read_rules, w.rows)
           view == visible(rules, w.rules)
           saved == { j \in DOMAIN programs : out.programs[j] # w.read_programs[j] }
       IN  /\ ids \cap locked(p) = {}
           /\ saved \cap locked_programs(p) = {}
           /\ passes' = [passes EXCEPT ![p] =
                 [@ EXCEPT !.pc = "handled",
                           !.rules = [i \in DOMAIN w.rules \cup ids |->
                               IF i \notin ids THEN w.rules[i]
                               ELSE IF i \in advanced
                               THEN [view[i] EXCEPT !.last_occurrence = out.rules[i].last_occurrence,
                                                    !.next_occurrence = out.rules[i].next_occurrence,
                                                    !.time_last_handled = now]
                               ELSE [view[i] EXCEPT !.time_last_handled = now]],
                           !.programs = [j \in saved |-> out.programs[j]],
                           !.invoked = { <<out.calls[k], w.read_rules[out.calls[k]].next_occurrence>> :
                                           k \in DOMAIN out.calls }]]
           /\ last' = [Idle("process_related_model_handlers") EXCEPT
                           !.id = p, !.related_calls = out.calls]
    /\ UNCHANGED <<now, rules, programs, locks, contexts>>

\* the transaction of worker p commits: its writes replace the committed rows
Commit(p) ==
    /\ passes[p].pc = "handled"
    /\ rules' = visible(rules, passes[p].rules)
    /\ programs' = visible(programs, passes[p].programs)
    /\ passes' = [passes EXCEPT ![p] = [NoPass EXCEPT !.invoked = passes[p].invoked]]
    /\ last' = [Idle("handle_overdue") EXCEPT !.id = p]
    /\ UNCHANGED <<now, locks, contexts>>

\* the rules the workers meet: one that calls a method of Program 1, one of
\* the handler class HandlerOne
ConcurrentRules ==
    { RelatedRule("handle_start_recurrence"), HandlerRule("tests.HandlerOne") }

InitConcurrent ==
    /\ now = 0
    /\ rules = <<>>
    /\ programs = <<[start_called |-> 0]>>
    /\ last = Idle("init")
    /\ passes = [p \in Workers |-> NoPass]
    /\ locks = NoLocks
    /\ contexts = NoContexts

\* two workers within one hour, with nothing that keeps their passes apart
NextConcurrent ==
    \/ CreateRule(ConcurrentRules)
    \/ \E p \in Workers : HandlerPaths(p) \/ RelatedQuery(p) \/ RelatedHandle(p) \/ Commit(p)

SpecConcurrent == InitConcurrent /\ [][NextConcurrent]_vars

----------------------------------------------------------------------------
(* ambition_utils.postgres_lock: PostgresLockContext *)

\* the values a context is created with (value=None by default)
LockValues == {"None", "a"}

\* an upsert that waits for nobody
row_locked_never(row, p) == FALSE

\* the row is written by a transaction of another process that has not ended:
\* the INSERT ... ON CONFLICT (name) DO UPDATE of process p has to wait
row_locked(row, p) == row.holder \notin {NoProcess, p}

\* the row the statement writes and returns: a new row, or on conflict the
\* row with previous_value = the value it had
upsert(row, value) ==
    [exists |-> TRUE,
     value |-> value,
     previous_value |-> IF row.exists THEN row.value ELSE "None",
     holder |-> row.holder]

\* PostgresLockContext(name, value).__enter__ up to cursor.execute(query): the
\* transaction is open and the statement is sent
Enter(p) ==
    /\ contexts[p].pc = "out"
    /\ \E name \in LockNames, value \in LockValues :
          contexts' = [contexts EXCEPT ![p] =
              [pc |-> "waiting", name |-> name, value |-> value, lock |-> "None", raised |-> FALSE]]
    /\ last' = [Idle("enter") EXCEPT !.id = p]
    /\ UNCHANGED <<now, rules, programs, passes, locks>>

\* the statement returns: the row is written and locked until the transaction
\* ends, __enter__ returns self
Acquire(p) ==
    /\ contexts[p].pc = "waiting"
    /\ ~row_locked(locks[contexts[p].name], p)
    /\ LET row == upsert(locks[contexts[p].name], contexts[p].value)
       IN  /\ locks' = [locks EXCEPT ![contexts[p].name].holder = p]
           /\ contexts' = [contexts EXCEPT ![p].pc = "inside",
                                           ![p].lock = IF row.value = row.previous_value
                                                       THEN "values match"
                                                       ELSE "values differ"]
    /\ last' = [Idle("acquire") EXCEPT !.id = p]
    /\ UNCHANGED <<now, rules, programs, passes>>

\* statement_timeout passes while the statement waits: OperationalError, the
\* transaction is ended and PostgresLockException is raised
Timeout(p) ==
    /\ contexts[p].pc = "waiting"
    /\ row_locked(locks[contexts[p].name], p)
    /\ contexts' = [contexts EXCEPT ![p].pc = "out", ![p].raised = TRUE]
    /\ last' = [Idle("timeout") EXCEPT !.id = p, !.raised = TRUE]
    /\ UNCHANGED <<now, rules, programs, passes, locks>>

\* __exit__ after the body: the transaction commits (the row as written is
\* stored) or, when the body raised, rolls back (the row is as before)
Exit(p) ==
    /\ contexts[p].pc = "inside"
    /\ \E raised \in BOOLEAN :
          /\ locks' = [locks EXCEPT ![contexts[p].name] =
                 IF raised THEN [@ EXCEPT !.holder = NoProcess]
                 ELSE [upsert(@, contexts[p].value) EXCEPT !.holder = NoProcess]]
          /\ contexts' = [contexts EXCEPT ![p].pc = "out", ![p].raised = raised]
          /\ last' = [Idle("exit") EXCEPT !.id = p, !.raised = raised]
    /\ UNCHANGED <<now, rules, programs, passes>>

InitLock ==
    /\ now = 0
    /\ rules = <<>>
    /\ programs = <<>>
    /\ last = Idle("init")
    /\ passes = <<>>
    /\ locks = NoLocks
    /\ contexts = NoContexts

NextLock == \E p \in Processes : Enter(p) \/ Acquire(p) \/ Timeout(p) \/ Exit(p)

SpecLock == InitLock /\ [][NextLock]_vars

----------------------------------------------------------------------------
(* The occurrence series of a rule, stated without the generator *)

\* far enough for MaxDates occurrences two days apart after the latest start
SeriesHorizon == MaxNow + (2 * MaxDates + 1) * Day

\* the naive local occurrences: on the grid of the rule, inside count and until,
\* and not an occurrence of the exclusion rule
LocalSeries(r) ==
    { x \in r.rrule_params.dtstart .. SeriesHorizon :
        /\ rrule_contains(r.rrule_params, x)
        /\ \A ex \in r.rrule_exclusion_params : ~rrule_contains(ex, x) }

\* the UTC instants of the series, each shifted by the rule's day offset
Instants(r) == { offset(r, convert_to_utc(r, x), FALSE) : x \in LocalSeries(r) }

\* the earliest element of S strictly after t, Null if there is none
EarliestAfter(S, t) ==
    IF \E s \in S : s > t
    THEN CHOOSE s \in S : s > t /\ \A u \in S : u > t => s <= u
    ELSE Null

\* the least element of a non-empty set of instants
Least(S) == CHOOSE s \in S : \A u \in S : s <= u

\* the first occurrence of the series as an instant: converted to UTC, shifted
FirstInstant(r) == offset(r, convert_to_utc(r, Least(LocalSeries(r))), FALSE)

\* the instants of the series of r without its day offset
Unshifted(r) == Instants([r EXCEPT !.day_offset = NoOffset])

\* the instant u moved by d calendar days on the wall clock of the rule's zone
ShiftDays(r, u, d) == localize(convert_to_tz(u, r.time_zone) + d * Day, r.time_zone)

\* the instants of the un-offset series, each moved by the rule's day offset
Shifted(r) == { ShiftDays(r, u, r.day_offset) : u \in Unshifted(r) }

\* the k-th occurrence of a rule without exclusions, as an instant
Occurrence(r, k) == offset(r, convert_to_utc(r, rrule_item(r.rrule_params, k - 1)), FALSE)

\* the rule with count and until taken out of its parameters
NoBounds(r) == [r EXCEPT !.rrule_params.count = Null, !.rrule_params.until = Null]

\* the n-th element of a set of instants in ascending order
NthOf(S, n) == CHOOSE s \in S : Cardinality({ u \in S : u < s }) = n - 1

\* dates lists the first n elements of S in ascending order, or all of S when
\* S has fewer
FirstOf(dates, S, n) ==
    /\ Len(dates) = (IF Cardinality(S) < n THEN Cardinality(S) ELSE n)
    /\ \A k \in DOMAIN dates : dates[k] = NthOf(S, k)

\* the naive local occurrences of the primary rule and of the exclusion rule
PrimaryLocal(r) ==
    { x \in r.rrule_params.dtstart .. SeriesHorizon : rrule_contains(r.rrule_params, x) }

ExclusionLocal(r) ==
    { x \in 0 .. SeriesHorizon : \E ex \in r.rrule_exclusion_params : rrule_contains(ex, x) }

\* a naive local occurrence as the instant the engine hands out
ToInstant(r, x) == offset(r, convert_to_utc(r, x), FALSE)

\* the instants of the primary occurrences the exclusion rule leaves in
Remaining(r) == { ToInstant(r, x) : x \in PrimaryLocal(r) \ ExclusionLocal(r) }

\* the instants of the occurrences of the exclusion rule
Excluded(r) == { ToInstant(r, x) : x \in ExclusionLocal(r) }

NeverEnding(r) == r.rrule_params.count = Null /\ r.rrule_params.until = Null

Due(r, t) == r.next_occurrence # Null /\ r.next_occurrence <= t

----------------------------------------------------------------------------
(* The dispatch of a pass, stated without the queries *)

Range(s) == { s[k] : k \in DOMAIN s }

\* a <= b for triples compared field by field
LexLeq(a, b) ==
    \/ a[1] < b[1]
    \/ a[1] = b[1] /\ a[2] < b[2]
    \/ a[1] = b[1] /\ a[2] = b[2] /\ a[3] <= b[3]

Ascending(keys) == \A k \in 1..(Len(keys) - 1) : LexLeq(keys[k], keys[k + 1])

\* never handled sorts before every handled time
TlhRank(x) == IF x = Null THEN 0 ELSE x + 1

HandlerKey(rs, i) ==
    <<TlhRank(rs[i].time_last_handled), rs[i].next_occurrence, PathRank(rs[i].occurrence_handler_path)>>

RelatedKey(rs, i) == <<TlhRank(rs[i].time_last_handled), rs[i].next_occurrence, i>>

Resolvable(path) ==
    path \in {"alias.HandlerOne", "tests.HandlerAll", "tests.HandlerNoOp", "tests.HandlerOne",
              "tests.HandlerTwo"}

\* the handler classes that have a rule due at t
DueClasses(rs, t) ==
    { import_string(rs[i].occurrence_handler_path) :
        i \in { i \in DOMAIN rs : Due(rs[i], t) /\ Resolvable(rs[i].occurrence_handler_path) } }

\* the rule one occurrence further: what an advance makes of a due rule
Advanced(r) ==
    [r EXCEPT !.last_occurrence = r.next_occurrence,
              !.next_occurrence = EarliestAfter(Instants(r), r.next_occurrence)]

----------------------------------------------------------------------------
(* Claims *)

\* C1: update_next_occurrence on a rule whose next_occurrence is set and not
\* after now moves next_occurrence into last_occurrence and sets next_occurrence
\* to the earliest instant of the rule's series strictly after it (null when
\* there is none); for a never-ending rule the new next_occurrence is set and
\* strictly later, so successive advances skip nothing and strictly increase.
C1_AdvanceStep ==
    \A i \in DOMAIN rules :
        (last'.op = "update_next_occurrence" /\ last'.id = i /\ Due(rules[i], now)) =>
            /\ rules'[i].last_occurrence = rules[i].next_occurrence
            /\ rules'[i].next_occurrence =
                  EarliestAfter(Instants(rules[i]), rules[i].next_occurrence)
            /\ NeverEnding(rules[i]) =>
                  /\ rules'[i].next_occurrence # Null
                  /\ rules'[i].next_occurrence > rules[i].next_occurrence

C1_Advance == [][C1_AdvanceStep]_vars

\* a Europe/Kiev rule advanced across the end of daylight-saving time
C1_Witness ==
    /\ last.op = "update_next_occurrence"
    /\ \E i \in DOMAIN rules :
        /\ last.id = i
        /\ rules[i].time_zone = "Europe/Kiev"
        /\ rules[i].last_occurrence # Null
        /\ rules[i].last_occurrence < KievDstEnd
        /\ rules[i].next_occurrence > KievDstEnd

\* C2: update_next_occurrence leaves last_occurrence and next_occurrence as they
\* are in exactly two cases: next_occurrence is null (it returns None) and now is
\* strictly before next_occurrence (it returns False); in every other case it
\* changes them.
C2_NoOpStep ==
    \A i \in DOMAIN rules :
        (last'.op = "update_next_occurrence" /\ last'.id = i) =>
            LET same == /\ rules'[i].last_occurrence = rules[i].last_occurrence
                        /\ rules'[i].next_occurrence = rules[i].next_occurrence
            IN  /\ rules[i].next_occurrence = Null => (same /\ last'.ret = "None")
                /\ (rules[i].next_occurrence # Null /\ now < rules[i].next_occurrence)
                      => (same /\ last'.ret = "False")
                /\ same <=> (rules[i].next_occurrence = Null \/ now < rules[i].next_occurrence)
                /\ rules' = [rules EXCEPT ![i] = rules'[i]]

C2_NoOp == [][C2_NoOpStep]_vars

\* an exhausted rule on which update_next_occurrence was called again
C2_Witness ==
    /\ last.op = "update_next_occurrence"
    /\ last.ret = "None"
    /\ \E i \in DOMAIN rules :
        /\ last.id = i
        /\ rules[i].next_occurrence = Null
        /\ rules[i].last_occurrence # Null

C4_Limit ==
    \A pick \in RowChoices(rules, now), L \in Limits \ {NoLimit} :
        LET calls == process_occurrence_handler_paths(rules, now, L, pick, NoFault).calls
        IN  /\ Cardinality(Range(calls)) <= L
            /\ Cardinality(DueClasses(rules, now)) >= L => Cardinality(Range(calls)) = L

\* the passes in which a round robin over a table of MaxRules rules reaches
\* every class
RoundRobinPasses == MaxRules + 1

\* class c has a due rule at each of n passes with occurrence_handler_limit = 1,
\* one day apart from t on, and none of the passes invokes it
RECURSIVE Starved(_, _, _, _, _)
Starved(c, rs, progs, t, n) ==
    \/ n = 0
    \/ /\ c \in DueClasses(rs, t)
       /\ \E pick \in RowChoices(rs, t) :
             LET out == handle_overdue(rs, progs, t, 1, NoLimit, pick, NoFault)
             IN  /\ c \notin Range(out.calls)
                 /\ Starved(c, out.rules, out.programs, t + Day, n - 1)

\* C5: called again and again with occurrence_handler_limit = 1 and time
\* advancing between the calls, handle_overdue goes round the classes that
\* have due rules: a resolvable class that stays due is invoked within
\* RoundRobinPasses passes, whichever rows are selected first.
C5_RoundRobin ==
    \A c \in DueClasses(rules, now + Day) : ~Starved(c, rules, programs, now + Day, RoundRobinPasses)

\* C6: a pass sets time_last_handled to now on every rule whose path is that of
\* a selected row with a resolvable class and on every selected related-entity
\* rule, whatever the handlers returned, and leaves the time_last_handled of
\* every other rule as it was.
C6_TimeLastHandled ==
    \A pick \in RowChoices(rules, now), hl \in Limits, rl \in Limits :
        LET out == handle_overdue(rules, programs, now, hl, rl, pick, NoFault)
            selected == { rules[i].occurrence_handler_path :
                            i \in { i \in Range(out.rows) : Resolvable(rules[i].occurrence_handler_path) } }
            considered == { i \in DOMAIN rules : rules[i].occurrence_handler_path \in selected }
                            \cup Range(out.related_rows)
        IN  \A i \in DOMAIN rules :
                out.rules[i].time_last_handled =
                    IF i \in considered THEN now ELSE rules[i].time_last_handled

\* C7: related-entity dispatch considers the rules due now that have a related
\* entity and a method name, in ascending order of time_last_handled (null
\* first), next_occurrence, id, cut to related_model_handler_limit when one is
\* given; the method of every considered rule whose entity has it is invoked
\* once with the rule, and exactly the rules returned are advanced by one
\* occurrence.
C7_Related ==
    \A pick \in RowChoices(rules, now), hl \in Limits, rl \in Limits :
        LET out == handle_overdue(rules, programs, now, hl, rl, pick, NoFault)
            rs == out.handler_rules
            eligible == { i \in DOMAIN rs : /\ Due(rs[i], now)
                                            /\ rs[i].related_object_id # NoObject
                                            /\ rs[i].related_object_handler_name # NoName }
            rows == out.related_rows
            with_method == { i \in Range(rows) : rs[i].related_object_handler_name \in ProgramMethods }
            returned == { i \in Range(rows) : rs[i].related_object_handler_name = "handle_start_recurrence" }
        IN  /\ Range(rows) \subseteq eligible
            /\ Len(rows) = Cardinality(Range(rows))
            /\ Len(rows) = IF rl # NoLimit /\ rl < Cardinality(eligible) THEN rl ELSE Cardinality(eligible)
            /\ Ascending([k \in DOMAIN rows |-> RelatedKey(rs, rows[k])])
            /\ \A i \in eligible \ Range(rows), k \in DOMAIN rows :
                  LexLeq(RelatedKey(rs, rows[k]), RelatedKey(rs, i))
            /\ Range(out.related_calls) = with_method
            /\ Len(out.related_calls) = Cardinality(with_method)
            /\ out.programs[1].start_called = programs[1].start_called + Cardinality(returned)
            /\ \A i \in DOMAIN rs :
                  LET to == IF i \in returned THEN Advanced(rs[i]) ELSE rs[i]
                  IN  /\ out.rules[i].last_occurrence = to.last_occurrence
                      /\ out.rules[i].next_occurrence = to.next_occurrence

\* a pass with a limit that advanced one related-entity rule and left another
\* due one for a later pass
C7_Witness ==
    /\ last.op = "handle_overdue"
    /\ \E i, j \in DOMAIN rules :
        /\ last.related_calls = <<i>>
        /\ rules[i].last_occurrence # Null
        /\ rules[i].time_last_handled = now
        /\ rules[j].related_object_handler_name = "handle_no_op"
        /\ rules[j].time_last_handled = Null
        /\ Due(rules[j], now)

MissingMethod(r) ==
    /\ r.related_object_id # NoObject
    /\ r.related_object_handler_name \notin ProgramMethods \cup {NoName}

\* C8 as stated: when a due related-entity rule names a method its entity does
\* not have, the pass completes without error and the rule's next_occurrence
\* and time_last_handled are both as before the pass.
C8_Untouched ==
    \A pick \in RowChoices(rules, now), hl \in Limits, rl \in Limits :
        LET out == handle_overdue(rules, programs, now, hl, rl, pick, NoFault)
        IN  /\ ~out.raised
            /\ \A i \in DOMAIN rules : (Due(rules[i], now) /\ MissingMethod(rules[i])) =>
                  /\ out.rules[i].next_occurrence = rules[i].next_occurrence
                  /\ out.rules[i].time_last_handled = rules[i].time_last_handled

\* C8: when a due related-entity rule names a method its entity does not have,
\* the pass completes without error and the rule's last_occurrence and
\* next_occurrence are as before the pass; its time_last_handled is set to now
\* when the rule is among the rows the pass considered, and is as before
\* otherwise.
C8_MissingMethod ==
    \A pick \in RowChoices(rules, now), hl \in Limits, rl \in Limits :
        LET out == handle_overdue(rules, programs, now, hl, rl, pick, NoFault)
        IN  /\ ~out.raised
            /\ \A i \in DOMAIN rules : (Due(rules[i], now) /\ MissingMethod(rules[i])) =>
                  /\ out.rules[i].next_occurrence = rules[i].next_occurrence
                  /\ out.rules[i].last_occurrence = rules[i].last_occurrence
                  /\ out.rules[i].time_last_handled =
                        IF i \in Range(out.related_rows) THEN now ELSE rules[i].time_last_handled

\* a completed pass that considered a rule naming a missing method
C8_Witness ==
    /\ last.op = "handle_overdue"
    /\ ~last.raised
    /\ \E i \in DOMAIN rules :
        /\ MissingMethod(rules[i])
        /\ Due(rules[i], now)
        /\ rules[i].last_occurrence = Null
        /\ rules[i].time_last_handled = now

\* C9: a rule whose occurrence_handler_path resolves to no class is left out of
\* handler-class dispatch: the pass does not raise, handler-class dispatch
\* leaves the rule as it is (and so does the pass when the rule has no related
\* entity), and every selected row whose class resolves has its class invoked
\* and the rules its handler returns advanced.
C9_Unresolvable ==
    \A pick \in RowChoices(rules, now), hl \in Limits, rl \in Limits :
        LET out == handle_overdue(rules, programs, now, hl, rl, pick, NoFault)
        IN  /\ ~out.raised
            /\ \A i \in DOMAIN rules : ~Resolvable(rules[i].occurrence_handler_path) =>
                  /\ out.handler_rules[i] = rules[i]
                  /\ rules[i].related_object_id = NoObject => out.rules[i] = rules[i]
            /\ \A k \in DOMAIN out.rows :
                  LET path == rules[out.rows[k]].occurrence_handler_path
                  IN  Resolvable(path) =>
                        /\ import_string(path) \in Range(out.calls)
                        /\ \A j \in DOMAIN rules :
                              (Due(rules[j], now) /\ j \in handle(import_string(path), rules, now)) =>
                                out.rules[j].last_occurrence = rules[j].next_occurrence

\* a pass over a rule with a broken path and a rule of HandlerOne: the first is
\* as it was created, the second advanced
C9_Witness ==
    /\ last.op = "handle_overdue"
    /\ last.calls = <<"HandlerOne">>
    /\ \E i, j \in DOMAIN rules :
        /\ rules[i].occurrence_handler_path = "tests.Gone"
        /\ Due(rules[i], now)
        /\ rules[i].last_occurrence = Null
        /\ rules[i].time_last_handled = Null
        /\ rules[j].occurrence_handler_path = "tests.HandlerOne"
        /\ rules[j].last_occurrence # Null
        /\ rules[j].time_last_handled = now

\* C10: a pass in which a handler or a bulk update raises lets the exception
\* out and leaves every rule and every row written by a handler as it was
\* before the pass.
C10_AllOrNothingStep ==
    (last'.op = "handle_overdue" /\ last'.raised) => (rules' = rules /\ programs' = programs)

C10_AllOrNothing == [][C10_AllOrNothingStep]_vars

\* a pass whose second bulk update raised after handle_start_recurrence had
\* written to its Program; the write is not in the table
C10_Witness ==
    /\ last.op = "handle_overdue"
    /\ last.raised
    /\ last.ret = "bulk_update"
    /\ \E i \in Range(last.related_calls) :
          rules[i].related_object_handler_name = "handle_start_recurrence"
    /\ programs[1].start_called = 0

\* C11: nothing in a pass keeps another pass away from the rules it has read.
\* When a worker selects its related rows it gets every rule that is due in the
\* committed table with a related object and a method name, the rules another
\* open pass has selected and not yet advanced among them; so two passes that
\* overlap both call the method of the same rule for the same occurrence.
C11_UnguardedStep ==
    \A p \in Workers :
        (passes[p].pc = "handlers" /\ passes'[p].pc = "queried") =>
            \A i \in DOMAIN rules :
                (/\ Due(visible(rules, passes[p].rules)[i], now)
                 /\ rules[i].related_object_handler_name # NoName
                 /\ rules[i].related_object_id # NoObject)
                    => \E k \in DOMAIN passes'[p].rows : passes'[p].rows[k] = i

C11_Unguarded == [][C11_UnguardedStep]_vars

\* both workers have called the method of one rule for one and the same
\* occurrence, and both passes have committed
C11_Witness ==
    /\ passes # <<>>
    /\ \E c \in passes[1].invoked \cap passes[2].invoked :
          /\ rules[c[1]].related_object_handler_name = "handle_start_recurrence"
          /\ rules[c[1]].last_occurrence = c[2]
    /\ passes[1].pc = "idle" /\ passes[2].pc = "idle"

\* C12: the first save of a rule sets next_occurrence to the first occurrence of
\* its series (the first one at or after dtstart that the exclusion rule does not
\* take out), converted to UTC and shifted by its day offset, and leaves
\* last_occurrence null; saving a rule that is already in the table changes
\* neither field.
C12_SeedStep ==
    /\ last.op = "create" =>
          /\ rules[1].last_occurrence = Null
          /\ rules[1].next_occurrence = FirstInstant(rules[1])
    /\ last'.op = "save" => rules'[last'.id] = rules[last'.id]

C12_Seed == [][C12_SeedStep]_vars

\* a saved rule that was refreshed past its first occurrence and never advanced
\* is saved again
C12_Witness ==
    /\ last.op = "save"
    /\ rules[last.id].last_occurrence = Null
    /\ rules[last.id].next_occurrence # Null
    /\ rules[last.id].next_occurrence # FirstInstant(rules[last.id])
    /\ rules[last.id].rrule_exclusion_params # NoParams

\* C13: refresh_next_occurrence(t) takes the earliest occurrence of the rule
\* strictly after t (t is now when left out); it stores that occurrence as
\* next_occurrence when it is later than now, leaves next_occurrence as it is when
\* it is not, stores null when there is none, and never changes last_occurrence.
C13_RefreshStep ==
    last'.op = "refresh_next_occurrence" =>
        LET i == last'.id
            e == EarliestAfter(Instants(rules[i]), IF last'.arg # Null THEN last'.arg ELSE now)
        IN  /\ rules'[i].last_occurrence = rules[i].last_occurrence
            /\ rules'[i].next_occurrence =
                  IF e = Null THEN Null
                  ELSE IF e > now THEN e ELSE rules[i].next_occurrence

C13_Refresh == [][C13_RefreshStep]_vars

\* C14: every instant the engine produces for a rule with day offset d is an
\* occurrence of the rule's series without offset moved by d days: the stored
\* next_occurrence, whichever operation wrote it, and the dates of get_dates.
C14_Offset ==
    \A i \in DOMAIN rules :
        /\ rules[i].next_occurrence # Null => rules[i].next_occurrence \in Shifted(rules[i])
        /\ \A k \in DOMAIN get_dates(rules[i], 2, Null, now) :
              get_dates(rules[i], 2, Null, now)[k] \in Shifted(rules[i])

\* C15: a rule with count = N takes its 1st, 2nd, ..., N-th occurrence as
\* next_occurrence in turn, one per due advance; the advance after the N-th sets
\* next_occurrence to null, and once null it stays null.
C15_CountStep ==
    \A i \in DOMAIN rules :
        LET r == rules[i]
            N == r.rrule_params.count
        IN  N # Null =>
              /\ \/ r.last_occurrence = Null /\ r.next_occurrence = Occurrence(r, 1)
                 \/ \E k \in 1..N :
                       /\ r.last_occurrence = Occurrence(r, k)
                       /\ r.next_occurrence = IF k < N THEN Occurrence(r, k + 1) ELSE Null
              /\ r.next_occurrence = Null => rules'[i].next_occurrence = Null

C16_CloneStep ==
    last'.op = "clone" =>
        LET o == rules[last'.id]
            c == rules'[last'.value]
        IN  /\ last'.value \notin DOMAIN rules
            /\ c.rrule_params = o.rrule_params
            /\ c.next_occurrence = o.next_occurrence
            /\ get_dates(c, CloneDates, Null, now) = get_dates(o, CloneDates, Null, now)
            /\ \A i \in DOMAIN rules : rules'[i] = rules[i]

C16_Clone == [][C16_CloneStep]_vars

\* C17: clone_with_day_offset(d) of a rule with a next_occurrence, in whichever
\* state, adds a rule with day_offset = d whose next_occurrence is the
\* original's next_occurrence moved by d days; the original keeps its own.
C17_CloneOffsetStep ==
    (last'.op = "clone_with_day_offset" /\ rules[last'.id].next_occurrence # Null) =>
        LET o == rules[last'.id]
            c == rules'[last'.value]
        IN  /\ c.day_offset = last'.arg
            /\ c.next_occurrence = ShiftDays(o, o.next_occurrence, last'.arg)
            /\ rules'[last'.id].next_occurrence = o.next_occurrence

C17_CloneOffset == [][C17_CloneOffsetStep]_vars

\* C18: clone_with_day_offset(d) leaves the rule parameters as they are and
\* moves the instants only: the clone's get_dates has as many dates as the
\* original's, each the original's date moved by d days, also when until ends
\* the series before the number of dates asked for.
C18_ShiftStep ==
    last'.op = "clone_with_day_offset" =>
        LET o == rules[last'.id]
            c == rules'[last'.value]
            od == get_dates(o, CloneDates, Null, now)
            cd == get_dates(c, CloneDates, Null, now)
        IN  /\ c.rrule_params = o.rrule_params
            /\ Len(cd) = Len(od)
            /\ \A k \in DOMAIN od : cd[k] = ShiftDays(o, od[k], last'.arg)

C18_Shift == [][C18_ShiftStep]_vars

\* C19: on a rule whose series has no occurrence left after its reference
\* instant, get_next_occurrence() returns null and get_next_occurrence(force=True)
\* returns the earliest occurrence after that instant of the series without
\* count and until; whatever the call, the rule's rrule_params are afterwards
\* what they were before.
C19_ForceStep ==
    last'.op = "get_next_occurrence" =>
        LET r == rules[last'.id]
            lo == IF r.last_occurrence # Null THEN r.last_occurrence ELSE now
        IN  /\ rules'[last'.id] = r
            /\ EarliestAfter(Instants(r), lo) = Null =>
                  last'.value = IF last'.force
                                THEN EarliestAfter(Instants(NoBounds(r)), lo)
                                ELSE Null

C19_Force == [][C19_ForceStep]_vars

\* an exhausted rule was asked with force and gave the occurrence past its bound
C19_Witness ==
    /\ last.op = "get_next_occurrence"
    /\ last.force
    /\ rules[last.id].next_occurrence = Null
    /\ rules[last.id].last_occurrence # Null
    /\ last.value # Null
    /\ last.value > rules[last.id].last_occurrence

\* C20 as claimed: get_dates(N, S) returns, in ascending order, the first N of
\* the rule's occurrence instants (UTC, day offset applied) that are strictly
\* later than S, all of them when S is left out, and fewer than N only when the
\* series has no more.
C20_DatesAfterStart ==
    last.op = "get_dates" =>
        LET r == rules[last.id]
        IN  FirstOf(last.value,
                    { x \in Instants(r) : last.arg = Null \/ x > last.arg },
                    last.num_dates)

\* C20: get_dates(N, S) returns, in ascending order and with the day offset
\* applied, the first N occurrences of the rule whose instant before the day
\* offset is strictly later than S, all occurrences counting when S is left
\* out, and fewer than N only when the series has no more.
C20_Dates ==
    last.op = "get_dates" =>
        LET r == rules[last.id]
        IN  FirstOf(last.value,
                    { ShiftDays(r, u, r.day_offset) :
                        u \in { x \in Unshifted(r) : last.arg = Null \/ x > last.arg } },
                    last.num_dates)

\* a rule with a day offset was asked for dates after a start date that lies
\* after its first occurrence, and the series ended before num_dates
C20_Witness ==
    /\ last.op = "get_dates"
    /\ last.arg # Null
    /\ rules[last.id].day_offset # NoOffset
    /\ last.value # <<>>
    /\ Len(last.value) < last.num_dates
    /\ last.arg > FirstInstant(rules[last.id])

\* C21: for a rule with exclusion params, the stored next_occurrence (seeded or
\* written by an advance) and the dates of get_dates are never occurrences of
\* the exclusion rule, and none of the remaining primary occurrences is left
\* out: the seed is the first of them, an advance moves to the next of them,
\* get_dates lists them in order.
C21_ExclusionStep ==
    \A i \in DOMAIN rules :
        LET r == rules[i]
        IN  r.rrule_exclusion_params # NoParams =>
              /\ r.next_occurrence # Null => r.next_occurrence \notin Excluded(r)
              /\ r.last_occurrence = Null => r.next_occurrence = Least(Remaining(r))
              /\ \A k \in DOMAIN get_dates(r, MaxDates, Null, now) :
                    get_dates(r, MaxDates, Null, now)[k] \notin Excluded(r)
              /\ FirstOf(get_dates(r, MaxDates, Null, now), Remaining(r), MaxDates)
              /\ (last'.op = "update_next_occurrence" /\ Due(r, now)) =>
                    rules'[i].next_occurrence = EarliestAfter(Remaining(r), r.next_occurrence)

C21_Exclusion == [][C21_ExclusionStep]_vars

\* a rule with an exclusion rule was advanced over a day the exclusion took out
C21_Witness ==
    /\ last.op = "update_next_occurrence"
    /\ rules[last.id].rrule_exclusion_params # NoParams
    /\ rules[last.id].last_occurrence # Null
    /\ rules[last.id].next_occurrence # Null
    /\ rules[last.id].next_occurrence - rules[last.id].last_occurrence > Day
    /\ \E x \in Excluded(rules[last.id]) :
          rules[last.id].last_occurrence < x /\ x < rules[last.id].next_occurrence

\* the submitted params with dtstart and until written as strings, as datetimes
AsStrings(params) ==
    [params EXCEPT !.dtstart = string(@.t),
                   !.until = IF @.kind = "None" THEN @ ELSE string(@.t)]

AsDatetimes(params) ==
    [params EXCEPT !.dtstart = datetime(@.t, 0),
                   !.until = IF @.kind = "None" THEN @ ELSE datetime(@.t, 0)]

\* C22: a rule created with dtstart and until as datetimes and one created with
\* the same values as 'YYYY-MM-DD HH:MM:SS' strings get the same next_occurrence
\* and both store the dates as those strings; saving again changes neither the
\* rrule_params nor next_occurrence nor the dates get_dates returns.
C22_NormalStep ==
    /\ last'.op = "create" =>
          LET r == rules'[last'.id]
              submitted == last'.submitted
          IN  /\ r.rrule_params = AsStrings(submitted.rrule_params)
              /\ r = save([submitted EXCEPT !.rrule_params = AsStrings(@)], NoPk)
              /\ r = save([submitted EXCEPT !.rrule_params = AsDatetimes(@)], NoPk)
              /\ r.next_occurrence = FirstInstant(get_rrule_set(r))
    /\ last'.op = "save" =>
          /\ rules' = rules
          /\ get_dates(get_rrule_set(rules'[last'.id]), MaxDates, Null, now)
                = get_dates(get_rrule_set(rules[last'.id]), MaxDates, Null, now)

C22_Normal == [][C22_NormalStep]_vars

\* a rule submitted with datetimes was created and holds strings
C22_Witness ==
    /\ last.op = "create"
    /\ last.submitted.rrule_params.dtstart = datetime(10, 0)
    /\ last.submitted.rrule_params.until = datetime(10 + 2 * Day, 0)
    /\ rules[1].rrule_params.dtstart = string(10)
    /\ rules[1].rrule_params.until = string(10 + 2 * Day)
    /\ rules[1].time_zone = "Europe/Kiev"
    /\ rules[1].next_occurrence = 10 - KievDstOffset

\* C23: in Europe/Kiev every stored occurrence reads the wall-clock hour of
\* dtstart when converted back to the zone and is one of the rule's local
\* occurrences moved by whole days; the stored UTC hour is 07:00 before the
\* end of summer time and 08:00 after it, so that consecutive occurrences are
\* a whole number of local days apart and their UTC distance differs from it by
\* the change of the UTC offset.
C23_Dst ==
    \A i \in DOMAIN rules :
        LET r == rules[i]
            local(v) == convert_to_tz(v, r.time_zone)
            Stored == {r.last_occurrence, r.next_occurrence} \ {Null}
        IN  r.time_zone = "Europe/Kiev" =>
              /\ \A v \in Stored :
                    /\ local(v) % Day = r.rrule_params.dtstart % Day
                    /\ local(v) - r.day_offset * Day \in PrimaryLocal(r)
                    /\ convert_to_utc(r, local(v)) = v
                    /\ v % Day = (IF v < KievDstEnd
                                  THEN r.rrule_params.dtstart - KievDstOffset
                                  ELSE r.rrule_params.dtstart - KievStdOffset)
              /\ (r.last_occurrence # Null /\ r.next_occurrence # Null) =>
                    /\ (local(r.next_occurrence) - local(r.last_occurrence))
                          = r.rrule_params.interval * Day
                    /\ r.next_occurrence - r.last_occurrence
                          = r.rrule_params.interval * Day
                              + utcoffset(r.time_zone, r.last_occurrence)
                              - utcoffset(r.time_zone, r.next_occurrence)

\* the daily 10:00 Europe/Kiev rule from 2022-10-29 went from 07:00Z to 08:00Z
\* of the next day
C23_Witness ==
    /\ last.op = "update_next_occurrence"
    /\ rules[last.id].time_zone = "Europe/Kiev"
    /\ rules[last.id].day_offset = NoOffset
    /\ rules[last.id].rrule_params.interval = 1
    /\ rules[last.id].last_occurrence = 7
    /\ rules[last.id].next_occurrence = Day + 8

\* the processes inside a context of the name
Inside(name) == { p \in Processes : contexts[p].pc = "inside" /\ contexts[p].name = name }

\* C24: at most one process is inside a PostgresLockContext of a name, and it
\* holds the row lock of the name; a process that entered a context of the
\* name while another is inside waits, and gets inside only in a step where
\* nobody else is inside.
C24_MutexStep ==
    /\ \A name \in LockNames :
          /\ Cardinality(Inside(name)) <= 1
          /\ \A p \in Inside(name) : locks[name].holder = p
    /\ \A p \in Processes :
          (contexts[p].pc # "inside" /\ contexts'[p].pc = "inside") =>
              /\ contexts[p].pc = "waiting"
              /\ Inside(contexts[p].name) = {}

C25_Ordered ==
    \A i \in DOMAIN rules :
        (rules[i].last_occurrence # Null /\ rules[i].next_occurrence # Null)
            => rules[i].last_occurrence <= rules[i].next_occurrence

\* C26: a pass of handle_overdue leaves last_occurrence and next_occurrence of
\* every rule that is not due (next_occurrence null or later than now) as they
\* were, also when a handler returns the rule, and it calls a handler class
\* only if a due rule names it and a related method only for a due rule.
C26_NotDueStep ==
    last'.op = "handle_overdue" =>
        /\ \A i \in DOMAIN rules :
              ~Due(rules[i], now) =>
                  /\ rules'[i].last_occurrence = rules[i].last_occurrence
                  /\ rules'[i].next_occurrence = rules[i].next_occurrence
        /\ Range(last'.calls) \subseteq DueClasses(rules, now)
        /\ \A k \in DOMAIN last'.related_calls : Due(rules[last'.related_calls[k]], now)

C26_NotDue == [][C26_NotDueStep]_vars

\* HandlerAll was called for a due rule and returned a rule of its path that
\* is due a day later and has not moved
C26_Witness ==
    /\ last.op = "handle_overdue"
    /\ "HandlerAll" \in Range(last.calls)
    /\ \E i, j \in DOMAIN rules :
          /\ rules[i].occurrence_handler_path = "tests.HandlerAll"
          /\ rules[i].last_occurrence # Null
          /\ rules[j].occurrence_handler_path = "tests.HandlerAll"
          /\ rules[j].last_occurrence = Null
          /\ rules[j].next_occurrence > now

\* C27 as claimed: the rule clone() returns has last_occurrence null and the
\* first occurrence of its series as next_occurrence, whatever the state of
\* the original.
C27_FreshStep ==
    last'.op = "clone" =>
        LET c == rules'[last'.value]
        IN  /\ c.last_occurrence = Null
            /\ c.next_occurrence = FirstInstant(c)

C27_Fresh == [][C27_FreshStep]_vars

\* C27 as the code has it: the rule clone() returns has the last_occurrence of
\* the original, and the next_occurrence of the original unless the original
\* was never advanced: then next_occurrence is the first occurrence of the
\* series.
C27_CopiedStep ==
    last'.op = "clone" =>
        LET o == rules[last'.id]
            c == rules'[last'.value]
        IN  /\ c.last_occurrence = o.last_occurrence
            /\ c.next_occurrence = IF o.last_occurrence = Null
                                   THEN FirstInstant(o)
                                   ELSE o.next_occurrence

C27_Copied == [][C27_CopiedStep]_vars

\* an advanced rule was cloned: the clone is where the original is, not at the
\* start of the series
C27_Witness ==
    /\ last.op = "clone"
    /\ rules[last.id].last_occurrence # Null
    /\ rules[last.value].last_occurrence = rules[last.id].last_occurrence
    /\ rules[last.value].next_occurrence = rules[last.id].next_occurrence
    /\ rules[last.value].next_occurrence # FirstInstant(rules[last.value])

\* C28: the rule RecurrenceForm.save stores has count in its rrule_params only
\* when ends = AFTER and until only when ends = ON, and neither when ends =
\* NEVER, whatever count and until were submitted.
C28_OneEnd ==
    (last.op = "form_save" /\ ~last.raised) =>
        LET params == rules[last.id].rrule_params
        IN  /\ params.count # Null => last.data.ends = "AFTER"
            /\ params.until # NoValue => last.data.ends = "ON"

\* the occurrences of r that are due at t and not handled yet
Missed(r, t) ==
    IF r.next_occurrence = Null THEN 0
    ELSE Cardinality({ x \in Instants(r) : r.next_occurrence <= x /\ x <= t })

\* the number of times class c is in the calls of a pass
TimesCalled(calls, c) == Cardinality({ k \in DOMAIN calls : calls[k] = c })

\* C29: a pass of handle_overdue whose handler returns an overdue rule moves
\* the rule by exactly one occurrence, however many it has missed, and calls
\* the handler once: the missed occurrences go down by one per pass; with the
\* clock frozen and the passes repeated, every rule is at last not overdue:
\* its next_occurrence is after now, or it is exhausted.
C29_PassStep ==
    last'.op = "handle_overdue" =>
        /\ \A i \in DOMAIN rules :
              IF Due(rules[i], now)
              THEN /\ rules'[i].last_occurrence = rules[i].next_occurrence
                   /\ rules'[i].next_occurrence
                         = EarliestAfter(Instants(rules[i]), rules[i].next_occurrence)
                   /\ Missed(rules'[i], now) = Missed(rules[i], now) - 1
              ELSE /\ rules'[i].last_occurrence = rules[i].last_occurrence
                   /\ rules'[i].next_occurrence = rules[i].next_occurrence
        /\ TimesCalled(last'.calls, "HandlerOne")
              = IF \E i \in DOMAIN rules : Due(rules[i], now) THEN 1 ELSE 0

C29_CatchUp ==
    /\ [][C29_PassStep]_vars
    /\ \A i \in 1..MaxRules :
          (i \in DOMAIN rules) ~> (i \in DOMAIN rules /\ ~Due(rules[i], now))

\* a never-ending rule created with the occurrences of every day up to now
\* missed has been moved, one pass per occurrence, past now
C29_Witness ==
    /\ last.op = "handle_overdue"
    /\ \E i \in DOMAIN rules :
          /\ rules[i].rrule_params.count = Null
          /\ rules[i].day_offset = NoOffset
          /\ rules[i].last_occurrence = now
          /\ rules[i].next_occurrence = now + Day
          /\ Missed(rules[i], now) = 0

\* C30: the next_occurrence of the rule clone_with_day_offset(d) returns is one
\* of the instants of the clone's own series, the occurrences of the spec moved
\* by the clone's day_offset d, also when the original has a day_offset of its
\* own.
C30_OwnSeriesStep ==
    (last'.op = "clone_with_day_offset" /\ rules'[last'.value].next_occurrence # Null) =>
        rules'[last'.value].next_occurrence \in Instants(rules'[last'.value])

C30_OwnSeries == [][C30_OwnSeriesStep]_vars

====
